---- MODULE Spec2Model ----
(***************************************************************************)
(* Verification orchestration layer of MedusaOnMe/plp:                     *)
(*   WalletVerificationServiceV2 (src/unnamed/part_004)                    *)
(*   PersistentQueue             (src/persistent-queue.js)                 *)
(*   ProxyManager                (src/proxy-manager.js)                    *)
(* One action per entry point / timer callback / promise continuation of   *)
(* the single-threaded event loop.  Time is Date.now() in milliseconds.    *)
(***************************************************************************)
EXTENDS Integers, Sequences, FiniteSets, TLC

(* ---------------- bounds of the model ---------------- *)
\* users that call verifyUserHoldsTokens in this run are 1..NumUsers
NumUsers == 2
\* number of verifyUserHoldsTokens calls explored
MaxCalls == 3
\* number of clock advances explored
MaxAdvances == 2
\* number of probe executions started in a run
MaxProbes == 3
\* number of proxies read from proxies.txt
NumProxies == 2
\* Date.now() when the service is constructed
StartTime == 1000000
\* number of getNextAvailableProxy calls explored when the pool is studied alone
MaxAcquires == 5
\* number of process restarts explored
MaxRestarts == 1
\* number of lines of proxies.txt explored
MaxLines == 4
\* number of nested loadProxies calls the call stack holds
MaxStackFrames == 3

\* circuitBreaker.maxFailures is 10 and circuitBreaker.maxQueueSize is 150 in the
\* source; the breaker and the backpressure check are explored with smaller
\* thresholds so that both trip within the calls and probes explored
maxFailures == 2
maxQueueSize == 1

(* ---------------- program constants ---------------- *)
resetTimeout == 60000
maxAttempts == 3
CacheTTL == 5 * 60 * 1000
cooldownPeriod == 76000
RetentionWindow == 3600000
fallbackCooldown == 10000

Users == 1..NumUsers
\* clock increments: one millisecond, the breaker timeout, one ms short of the TTL
TimeSteps == {1, resetTimeout, CacheTTL - 1}

VARIABLES
  now,            \* Date.now()
  queue,          \* PersistentQueue.queue
  disk,           \* content of the queue file
  processing,     \* PersistentQueue.processing / processInterval is set
  inflight,       \* processor invocations awaiting checkUserHoldings
  nextId,         \* ids handed out by add()
  cleanupTimer,   \* the 5 min cleanup interval of startProcessing is set
  pendingResults, \* Map pendingKey -> promise
  promises,       \* state of every promise created by verifyUserHoldsTokens
  holdingsCache,  \* Map cacheKey -> {result, timestamp}
  circuitBreaker, \* this.circuitBreaker
  metrics,        \* this.metrics
  proxyUsage,     \* ProxyManager.proxyUsage
  currentIndex,   \* ProxyManager.currentIndex
  advances,       \* number of clock advances made
  probeSeq,       \* number of checkUserHoldings invocations started
  probed,         \* per work item: number of checkUserHoldings invocations
  failRun,        \* consecutive probe failures so far, and when the run reached maxFailures
  failSeq,        \* recorded breaker failures and successes in order: 0 the last one was
                  \* a success (or there is none), 1 the last one was a failure, 2 some
                  \* failure was recorded directly after another failure
  lastCall,       \* the verifyUserHoldsTokens call made by the last step (if it was one):
                  \* its arguments, what it returned or awaits, and the state it found
  bypassed,       \* the fresh cache entries skipped by forceRefresh calls, each with
                  \* the promise the call awaits instead
  acquired,       \* the getNextAvailableProxy calls of this process, in order: what
                  \* each returned, when, and the pool it found
  processor,      \* whether the queue has a processor function (setProcessor was called)
  proxiesFile,    \* proxies.txt: whether it exists and the kind of each of its lines
  proxies,        \* ProxyManager.proxies
  poolCooldown,   \* ProxyManager.cooldownPeriod
  fileReads,      \* number of readFileSync calls made by the ProxyManager constructor
  loadState,      \* the ProxyManager constructor: not run yet, returned, or threw
  restarts,       \* number of process restarts so far
  swept           \* ids of the items removed by cleanup()

queueVars == <<queue, disk, processing, inflight, nextId, cleanupTimer>>
orchVars  == <<pendingResults, promises, holdingsCache, circuitBreaker, metrics>>
loadVars  == <<proxiesFile, proxies, poolCooldown, fileReads, loadState>>
proxyVars == <<proxyUsage, currentIndex, loadVars>>
histVars  == <<advances, probeSeq, probed, failRun, failSeq, lastCall, bypassed, acquired, restarts,
               swept>>
vars == <<now, queueVars, orchVars, proxyVars, histVars, processor>>

(* ---------------- Result values ---------------- *)
\* exec identifies the checkUserHoldings invocation that built the object (0: none)
NoResult == [verified |-> FALSE, reason |-> "", hasTokens |-> FALSE, exec |-> 0]
BreakerOpenResult ==
  [verified |-> FALSE, reason |-> "System overloaded - verification temporarily disabled",
   hasTokens |-> FALSE, exec |-> 0]
QueueOverloadedResult ==
  [verified |-> FALSE, reason |-> "Verification queue overloaded - try again later",
   hasTokens |-> FALSE, exec |-> 0]
ProbeResult(e) ==
  [verified |-> TRUE, reason |-> "User holds tokens", hasTokens |-> TRUE, exec |-> e]
FailedResult(e) ==
  [verified |-> FALSE, reason |-> "Verification failed", hasTokens |-> FALSE, exec |-> e]

\* a promise is pending, fulfilled with a value, or rejected
PendingPromise == [state |-> "pending", value |-> NoResult]
Fulfilled(r) == [state |-> "fulfilled", value |-> r]
\* resolve(v) on a promise: only the first settlement counts
Resolve(p, r) == IF p.state = "pending" THEN Fulfilled(r) ELSE p

\* the catch branch settling the caller's promise with reject(error)
DeliverFailure_reject(p, e) ==
  IF p.state = "pending" THEN [state |-> "rejected", value |-> FailedResult(e)] ELSE p

\* the catch branch of processVerificationRequest: resolve(failedResult)
DeliverFailure(p, e) == Resolve(p, FailedResult(e))

(* ---------------- ProxyManager ---------------- *)
Min(S) == CHOOSE x \in S : \A y \in S : x <= y

\* a lookup that neither marks the proxy it returns nor moves the cursor
getNextAvailableProxy_noMark(usage, cur, t) ==
  LET n == NumProxies
      avail == {i \in 0..(n-1) : t - usage[(cur + i) % n] >= cooldownPeriod}
      older == {j \in 0..(n-1) : usage[j] < t}
  IN IF avail # {}
       THEN [proxy |-> (cur + Min(avail)) % n, usage |-> usage, index |-> cur]
     ELSE IF older # {}
       THEN LET oldestTime == Min({usage[j] : j \in older})
                px == Min({j \in older : usage[j] = oldestTime})
            IN [proxy |-> px, usage |-> [usage EXCEPT ![px] = t], index |-> cur]
     ELSE [proxy |-> 0, usage |-> usage, index |-> cur]

\* the cooldown scan keeping the last proxy that is older than the call
getNextAvailableProxy_last(usage, cur, t) ==
  LET n == NumProxies
      avail == {i \in 0..(n-1) : t - usage[(cur + i) % n] >= cooldownPeriod}
      older == {j \in 0..(n-1) : usage[j] < t}
  IN IF avail # {}
       THEN LET px == (cur + Min(avail)) % n
            IN [proxy |-> px, usage |-> [usage EXCEPT ![px] = t], index |-> (px + 1) % n]
     ELSE IF older # {}
       THEN LET px == CHOOSE j \in older : \A y \in older : y <= j
            IN [proxy |-> px, usage |-> [usage EXCEPT ![px] = t], index |-> cur]
     ELSE [proxy |-> 0, usage |-> usage, index |-> cur]

\* the cooldown branch returning the oldest proxy without marking it
getNextAvailableProxy_oldestUnmarked(usage, cur, t) ==
  LET n == NumProxies
      avail == {i \in 0..(n-1) : t - usage[(cur + i) % n] >= cooldownPeriod}
      older == {j \in 0..(n-1) : usage[j] < t}
  IN IF avail # {}
       THEN LET px == (cur + Min(avail)) % n
            IN [proxy |-> px, usage |-> [usage EXCEPT ![px] = t], index |-> (px + 1) % n]
     ELSE IF older # {}
       THEN LET oldestTime == Min({usage[j] : j \in older})
                px == Min({j \in older : usage[j] = oldestTime})
            IN [proxy |-> px, usage |-> usage, index |-> cur]
     ELSE [proxy |-> 0, usage |-> usage, index |-> cur]

\* a scan that starts at the first proxy instead of at the cursor
getNextAvailableProxy_fromZero(usage, cur, t) ==
  LET n == NumProxies
      avail == {i \in 0..(n-1) : t - usage[i] >= cooldownPeriod}
      older == {j \in 0..(n-1) : usage[j] < t}
  IN IF avail # {}
       THEN LET px == Min(avail)
            IN [proxy |-> px, usage |-> [usage EXCEPT ![px] = t], index |-> (px + 1) % n]
     ELSE IF older # {}
       THEN LET oldestTime == Min({usage[j] : j \in older})
                px == Min({j \in older : usage[j] = oldestTime})
            IN [proxy |-> px, usage |-> [usage EXCEPT ![px] = t], index |-> cur]
     ELSE [proxy |-> 0, usage |-> usage, index |-> cur]

\* getNextAvailableProxy: [proxy, usage, index] ; proxy = -1 never happens
getNextAvailableProxy(usage, cur, t) ==
  LET n == NumProxies
      avail == {i \in 0..(n-1) : t - usage[(cur + i) % n] >= cooldownPeriod}
      older == {j \in 0..(n-1) : usage[j] < t}
  IN IF avail # {}
       THEN LET px == (cur + Min(avail)) % n
            IN [proxy |-> px, usage |-> [usage EXCEPT ![px] = t], index |-> (px + 1) % n]
     ELSE IF older # {}
       THEN LET oldestTime == Min({usage[j] : j \in older})
                px == Min({j \in older : usage[j] = oldestTime})
            IN [proxy |-> px, usage |-> [usage EXCEPT ![px] = t], index |-> cur]
     ELSE [proxy |-> 0, usage |-> usage, index |-> cur]

(* ---------------- PersistentQueue ---------------- *)
NoFile == <<[id |-> 0]>>

\* a file format that does not carry the status
Serialize_noStatus(q) ==
  [i \in 1..Len(q) |-> [q[i] EXCEPT !.hasResolve = FALSE, !.status = "pending"]]

\* a file format that does not carry the attempts counter
Serialize_noAttempts(q) ==
  [i \in 1..Len(q) |-> [q[i] EXCEPT !.hasResolve = FALSE, !.attempts = 0]]

\* JSON.stringify drops the resolve/reject functions stored in item.data
Serialize(q) == [i \in 1..Len(q) |-> [q[i] EXCEPT !.hasResolve = FALSE]]

\* loadQueue: the parsed file, or [] when there is no file
loadQueue(file) == IF file = NoFile THEN <<>> ELSE file

QueueItem(id, k) ==
  [id |-> id, key |-> k, hasResolve |-> TRUE, attempts |-> 0,
   status |-> "pending", completedAt |-> 0, lastError |-> "none"]

\* getStats().pending
PendingCount(q) == Cardinality({i \in 1..Len(q) : q[i].status = "pending"})

Eligible(q) == {i \in 1..Len(q) : q[i].status = "pending" /\ q[i].attempts < maxAttempts}

\* a lookup that takes the eligible item enqueued last
getNext_newest(q) == CHOOSE i \in Eligible(q) : \A j \in Eligible(q) : j <= i

\* getNext: the index found by this.queue.find(pending && attempts < maxAttempts)
getNext(q) == Min(Eligible(q))

IndexOf(q, id) == CHOOSE i \in 1..Len(q) : q[i].id = id

\* a completion that counts as an attempt
markCompleted_counting(q, id, t) ==
  [q EXCEPT ![IndexOf(q, id)] =
     [@ EXCEPT !.status = "completed", !.completedAt = t, !.attempts = @ + 1]]

markCompleted(q, id, t) ==
  [q EXCEPT ![IndexOf(q, id)] = [@ EXCEPT !.status = "completed", !.completedAt = t]]

\* a failure path that counts the attempt twice
markFailed_twice(q, id, err) ==
  [q EXCEPT ![IndexOf(q, id)] =
     [@ EXCEPT !.attempts = @ + 2,
               !.lastError = err,
               !.status = IF q[IndexOf(q, id)].attempts + 2 >= maxAttempts
                            THEN "failed" ELSE "pending"]]

\* the exhaustion test written attempts > maxAttempts
markFailed_gt(q, id, err) ==
  [q EXCEPT ![IndexOf(q, id)] =
     [@ EXCEPT !.attempts = @ + 1,
               !.lastError = err,
               !.status = IF q[IndexOf(q, id)].attempts + 1 > maxAttempts
                            THEN "failed" ELSE "pending"]]

\* a failed attempt that always goes back to pending
markFailed_retry(q, id, err) ==
  [q EXCEPT ![IndexOf(q, id)] =
     [@ EXCEPT !.attempts = @ + 1, !.lastError = err, !.status = "pending"]]

markFailed(q, id, err) ==
  [q EXCEPT ![IndexOf(q, id)] =
     [@ EXCEPT !.attempts = @ + 1,
               !.lastError = err,
               !.status = IF q[IndexOf(q, id)].attempts + 1 >= maxAttempts
                            THEN "failed" ELSE "pending"]]

\* a sweep that drops completed items whatever their age
Retained_noWindow(it, t) == it.status # "completed"

\* cleanup keeps everything but the completed items that are an hour old
Retained(it, t) ==
  IF it.status = "completed" /\ it.completedAt # 0
    THEN it.completedAt > t - RetentionWindow
    ELSE TRUE

(* ---------------- circuit breaker ---------------- *)
\* the reset test written now >= openUntil
isCircuitBreakerOpen_ge(c, t) ==
  IF c.isOpen
    THEN IF t >= c.openUntil
           THEN [open |-> FALSE, cb |-> [c EXCEPT !.isOpen = FALSE, !.failureCount = 0]]
           ELSE [open |-> TRUE, cb |-> c]
  ELSE IF c.failureCount >= maxFailures
    THEN [open |-> TRUE, cb |-> [c EXCEPT !.isOpen = TRUE, !.openUntil = t + resetTimeout]]
  ELSE [open |-> FALSE, cb |-> c]

\* a reset that closes the breaker and keeps the failure count
isCircuitBreakerOpen_keepCount(c, t) ==
  IF c.isOpen
    THEN IF t > c.openUntil
           THEN [open |-> FALSE, cb |-> [c EXCEPT !.isOpen = FALSE]]
           ELSE [open |-> TRUE, cb |-> c]
  ELSE IF c.failureCount >= maxFailures
    THEN [open |-> TRUE, cb |-> [c EXCEPT !.isOpen = TRUE, !.openUntil = t + resetTimeout]]
  ELSE [open |-> FALSE, cb |-> c]

\* a check that counts every rejection as one more failure
isCircuitBreakerOpen_counting(c, t) ==
  IF c.isOpen
    THEN IF t > c.openUntil
           THEN [open |-> FALSE, cb |-> [c EXCEPT !.isOpen = FALSE, !.failureCount = 0]]
           ELSE [open |-> TRUE, cb |-> [c EXCEPT !.failureCount = @ + 1]]
  ELSE IF c.failureCount >= maxFailures
    THEN [open |-> TRUE, cb |-> [c EXCEPT !.isOpen = TRUE, !.openUntil = t + resetTimeout,
                                          !.failureCount = @ + 1]]
  ELSE [open |-> FALSE, cb |-> c]

\* isCircuitBreakerOpen: the answer and the breaker after the check
isCircuitBreakerOpen(c, t) ==
  IF c.isOpen
    THEN IF t > c.openUntil
           THEN [open |-> FALSE, cb |-> [c EXCEPT !.isOpen = FALSE, !.failureCount = 0]]
           ELSE [open |-> TRUE, cb |-> c]
  ELSE IF c.failureCount >= maxFailures
    THEN [open |-> TRUE, cb |-> [c EXCEPT !.isOpen = TRUE, !.openUntil = t + resetTimeout]]
  ELSE [open |-> FALSE, cb |-> c]

\* a success that clears the failure count
recordSuccessCB_reset(c) == [c EXCEPT !.successCount = @ + 1, !.failureCount = 0]

\* recordSuccess on the breaker record
recordSuccessCB(c) ==
  [c EXCEPT !.successCount = @ + 1,
            !.failureCount = IF @ > 0 THEN @ - 1 ELSE @]

recordFailureCB(c) == [c EXCEPT !.failureCount = @ + 1]

\* the TTL written in seconds
CacheFresh_seconds(cache, k, t) == k \in DOMAIN cache /\ (t - cache[k].timestamp) < 5 * 60

\* the TTL test written <=
CacheFresh_le(cache, k, t) == k \in DOMAIN cache /\ (t - cache[k].timestamp) <= CacheTTL

\* cachedResult && (Date.now() - cachedResult.timestamp) < 5 * 60 * 1000
CacheFresh(cache, k, t) == k \in DOMAIN cache /\ (t - cache[k].timestamp) < CacheTTL

\* a call that never answers from the cache, so that it joins the request in flight
UseCache_never(force, cache, k, t) == FALSE

\* the cache test without !forceRefresh
UseCache_ignoreForce(force, cache, k, t) == CacheFresh(cache, k, t)

\* !forceRefresh && cachedResult && fresh
UseCache(force, cache, k, t) == ~force /\ CacheFresh(cache, k, t)

\* a cache write that leaves a still-fresh entry in place
CacheSet_keepFresh(cache, k, r, t) ==
  IF CacheFresh(cache, k, t) THEN cache
  ELSE [x \in DOMAIN cache \cup {k} |->
          IF x = k THEN [result |-> r, timestamp |-> t] ELSE cache[x]]

\* this.holdingsCache.set(cacheKey, {result, timestamp: Date.now()})
CacheSet(cache, k, r, t) ==
  [x \in DOMAIN cache \cup {k} |->
     IF x = k THEN [result |-> r, timestamp |-> t] ELSE cache[x]]

\* the backpressure test written >=
Overloaded_ge(q) == PendingCount(q) >= maxQueueSize

\* queueStats.pending > this.circuitBreaker.maxQueueSize
Overloaded(q) == PendingCount(q) > maxQueueSize

\* the state a verifyUserHoldsTokens call finds
Found ==
  [circuitBreaker |-> circuitBreaker, queue |-> queue, pendingResults |-> pendingResults,
   promises |-> promises, holdingsCache |-> holdingsCache, probeSeq |-> probeSeq,
   proxyUsage |-> proxyUsage, currentIndex |-> currentIndex, metrics |-> metrics,
   disk |-> disk, inflight |-> inflight]

\* the order of recorded outcomes after one more recorded failure
AfterFailure(s) == IF s = 0 THEN 1 ELSE 2

\* the last step was not a call
NoCall ==
  [key |-> 0, force |-> FALSE, path |-> "none", result |-> NoResult, promise |-> 0,
   found |-> [circuitBreaker |-> [failureCount |-> 0, successCount |-> 0,
                                  isOpen |-> FALSE, openUntil |-> 0],
              queue |-> <<>>, pendingResults |-> <<>>, promises |-> <<>>,
              holdingsCache |-> <<>>, probeSeq |-> 0,
              proxyUsage |-> [i \in 0..(NumProxies - 1) |-> 0], currentIndex |-> 0,
              metrics |-> [totalRequests |-> 0, successfulRequests |-> 0,
                           failedRequests |-> 0],
              disk |-> <<>>, inflight |-> {}]]

(* ---------------- ProxyManager construction ---------------- *)
\* a line of proxies.txt: username:password@host:port, some other text, or blank
LineKinds == {"proxy", "malformed", "blank"}

\* the states of proxies.txt: missing, or present with up to MaxLines lines
ProxiesFiles ==
  {[exists |-> FALSE, lines |-> <<>>]} \cup
  {[exists |-> TRUE, lines |-> l] : l \in UNION {[1..n -> LineKinds] : n \in 0..MaxLines}}

\* the six proxies written in loadProxies
HardcodedProxies == [i \in 1..6 |-> [from |-> "hardcoded", line |-> i]]

\* lines.map(regex match).filter(proxy => proxy !== null) over the non-blank lines
RECURSIVE ParseLines(_, _)
ParseLines(lines, i) ==
  IF i > Len(lines) THEN <<>>
  ELSE IF lines[i] = "proxy"
    THEN <<[from |-> "file", line |-> i]>> \o ParseLines(lines, i + 1)
    ELSE ParseLines(lines, i + 1)

\* loadProxies called with `frames` calls of it already on the stack and `reads`
\* reads of the file made: the proxies and cooldown it leaves, and whether the
\* call stack overflowed (the RangeError then leaves every catch block above)
RECURSIVE loadProxies(_, _, _)
loadProxies(file, frames, reads) ==
  IF frames >= MaxStackFrames
    THEN [proxies |-> <<>>, cooldown |-> cooldownPeriod, reads |-> reads, threw |-> TRUE]
  ELSE IF ~file.exists
    THEN [proxies |-> HardcodedProxies, cooldown |-> fallbackCooldown,
          reads |-> reads, threw |-> FALSE]
  ELSE IF Len(ParseLines(file.lines, 1)) = 0
    THEN loadProxies(file, frames + 1, reads + 1)
  ELSE [proxies |-> ParseLines(file.lines, 1), cooldown |-> cooldownPeriod,
        reads |-> reads + 1, threw |-> FALSE]

\* a proxies.txt with NumProxies well-formed lines
DefaultFile == [exists |-> TRUE, lines |-> [i \in 1..NumProxies |-> "proxy"]]

\* new ProxyManager(): the fields after the constructor, given the file
ProxyManagerNew(file) == loadProxies(file, 0, 0)

(* ---------------- initial state ---------------- *)
\* the state after construction, with no queue file on disk; proc tells whether
\* setProcessor has been called
Constructed(proc) ==
  /\ processor = proc
  /\ now = StartTime
  /\ queue = loadQueue(NoFile)
  /\ disk = Serialize(loadQueue(NoFile))
  /\ nextId = 1
  /\ probed = <<>>
  /\ processing = FALSE
  /\ inflight = {}
  /\ pendingResults = <<>>
  /\ promises = <<>>
  /\ holdingsCache = <<>>
  /\ circuitBreaker = [failureCount |-> 0, successCount |-> 0, isOpen |-> FALSE, openUntil |-> 0]
  /\ metrics = [totalRequests |-> 0, successfulRequests |-> 0, failedRequests |-> 0]
  /\ proxyUsage = [i \in 0..(NumProxies - 1) |-> 0]
  /\ currentIndex = 0
  /\ proxiesFile = DefaultFile
  /\ proxies = ProxyManagerNew(DefaultFile).proxies
  /\ poolCooldown = ProxyManagerNew(DefaultFile).cooldown
  /\ fileReads = ProxyManagerNew(DefaultFile).reads
  /\ loadState = "returned"
  /\ advances = 0
  /\ probeSeq = 0
  /\ failRun = [count |-> 0, at |-> 0]
  /\ failSeq = 0
  /\ lastCall = NoCall
  /\ cleanupTimer = FALSE
  /\ bypassed = {}
  /\ acquired = <<>>
  /\ restarts = 0
  /\ swept = {}

\* constructors of the three classes: the service constructor ends with
\* initialize(), which sets the processor
Init == Constructed(TRUE)

(* ---------------- actions ---------------- *)
Returned(k, force, path, r, p) ==
  lastCall' = [key |-> k, force |-> force, path |-> path, result |-> r, promise |-> p,
               found |-> Found]

\* a forceRefresh call skips the fresh entry of its key and awaits promise p
Bypass(k, force, p) ==
  bypassed' = IF force /\ CacheFresh(holdingsCache, k, now)
                THEN bypassed \cup {[promise |-> p, entry |-> holdingsCache[k]]}
                ELSE bypassed

\* verifyUserHoldsTokens(username, currentCoinCA, forceRefresh), up to its return
\* or its first await
Verify(k, force) ==
  /\ metrics.totalRequests < MaxCalls
  /\ LET chk == isCircuitBreakerOpen(circuitBreaker, now)
         m1  == [metrics EXCEPT !.totalRequests = @ + 1]
     IN
     IF chk.open THEN
       /\ circuitBreaker' = chk.cb
       /\ metrics' = [m1 EXCEPT !.failedRequests = @ + 1]
       /\ Returned(k, force, "breaker", BreakerOpenResult, 0)
       /\ UNCHANGED <<queueVars, pendingResults, promises, holdingsCache, probed, bypassed>>
     ELSE IF Overloaded(queue) THEN
       /\ circuitBreaker' = recordFailureCB(chk.cb)
       /\ metrics' = [m1 EXCEPT !.failedRequests = @ + 2]
       /\ Returned(k, force, "overload", QueueOverloadedResult, 0)
       /\ UNCHANGED <<queueVars, pendingResults, promises, holdingsCache, probed, bypassed>>
     ELSE IF UseCache(force, holdingsCache, k, now) THEN
       /\ circuitBreaker' = chk.cb
       /\ metrics' = m1
       /\ Returned(k, force, "cache", holdingsCache[k].result, 0)
       /\ UNCHANGED <<queueVars, pendingResults, promises, holdingsCache, probed, bypassed>>
     ELSE IF k \in DOMAIN pendingResults THEN
       /\ circuitBreaker' = chk.cb
       /\ metrics' = m1
       /\ Returned(k, force, "join", NoResult, pendingResults[k])
       /\ Bypass(k, force, pendingResults[k])
       /\ UNCHANGED <<queueVars, pendingResults, promises, holdingsCache, probed>>
     ELSE
       /\ circuitBreaker' = chk.cb
       /\ metrics' = m1
       /\ pendingResults' = (k :> nextId) @@ pendingResults
       /\ promises' = (nextId :> PendingPromise) @@ promises
       /\ queue' = Append(queue, QueueItem(nextId, k))
       /\ disk' = Serialize(queue')
       /\ probed' = (nextId :> 0) @@ probed
       /\ nextId' = nextId + 1
       /\ processing' = TRUE
       /\ cleanupTimer' = (cleanupTimer \/ ~processing)
       /\ Returned(k, force, "enqueue", NoResult, nextId)
       /\ Bypass(k, force, nextId)
       /\ UNCHANGED <<inflight, holdingsCache>>
  /\ failSeq' = IF ~isCircuitBreakerOpen(circuitBreaker, now).open /\ Overloaded(queue)
                  THEN AfterFailure(failSeq)
                  ELSE failSeq
  /\ UNCHANGED <<now, proxyVars, advances, probeSeq, failRun, acquired, restarts, processor, swept>>

\* this.proxyManager.getNextAvailableProxy() in processVerificationRequest
Acquire ==
  LET px == getNextAvailableProxy(proxyUsage, currentIndex, now)
  IN /\ proxyUsage' = px.usage
     /\ currentIndex' = px.index
     /\ acquired' = Append(acquired, [proxy |-> px.proxy, t |-> now,
                                      usage |-> proxyUsage, index |-> currentIndex])
     /\ UNCHANGED loadVars

\* an interval that stopProcessing does not clear
IntervalSet_always == TRUE

\* the 1 s interval of startProcessing is set (processInterval is not null)
IntervalSet == processing

\* one firing of the 1 s interval: processNext up to the await of the processor,
\* i.e. getNext, then processVerificationRequest up to the await of checkUserHoldings
StartProbe ==
  /\ IntervalSet
  /\ processor
  /\ Eligible(queue) # {}
  /\ LET i  == getNext(queue)
     IN /\ queue' = [queue EXCEPT ![i].status = "processing"]
        /\ disk' = Serialize(queue')
        /\ Acquire
        /\ probeSeq' = probeSeq + 1
        /\ inflight' = inflight \cup {[id |-> queue[i].id, exec |-> probeSeq + 1]}
        /\ probed' = [probed EXCEPT ![queue[i].id] = @ + 1]
  /\ lastCall' = NoCall
  /\ UNCHANGED <<now, processing, nextId, cleanupTimer, orchVars, advances, failRun,
                 failSeq, bypassed, restarts, processor, swept>>

\* the interval callback, within the number of probes explored
Tick == probeSeq < MaxProbes /\ StartProbe

\* checkUserHoldings returned: rest of processVerificationRequest (try branch),
\* then markCompleted in processNext
ProbeReturns(h) ==
  /\ h \in inflight
  /\ LET it == queue[IndexOf(queue, h.id)]
         r  == ProbeResult(h.exec)
     IN /\ circuitBreaker' = recordSuccessCB(circuitBreaker)
        /\ metrics' = [metrics EXCEPT !.successfulRequests = @ + 1]
        /\ holdingsCache' = CacheSet(holdingsCache, it.key, r, now)
        /\ promises' = IF it.hasResolve
                         THEN [promises EXCEPT ![h.id] = Resolve(@, r)]
                         ELSE promises
        /\ pendingResults' = [x \in DOMAIN pendingResults \ {it.key} |-> pendingResults[x]]
        /\ queue' = markCompleted(queue, h.id, now)
        /\ disk' = Serialize(queue')
  /\ inflight' = inflight \ {h}
  /\ failRun' = [failRun EXCEPT !.count = 0]
  /\ failSeq' = IF failSeq = 2 THEN 2 ELSE 0
  /\ lastCall' = NoCall
  /\ UNCHANGED <<now, processing, nextId, cleanupTimer, proxyVars, advances, probeSeq,
                 probed, bypassed, acquired, restarts, processor, swept>>

\* checkUserHoldings threw: catch branch of processVerificationRequest,
\* then markFailed in processNext (the handler returned success: false)
ProbeThrows(h) ==
  /\ h \in inflight
  /\ LET it == queue[IndexOf(queue, h.id)]
     IN /\ circuitBreaker' = recordFailureCB(circuitBreaker)
        /\ metrics' = [metrics EXCEPT !.failedRequests = @ + 1]
        /\ promises' = IF it.hasResolve
                         THEN [promises EXCEPT ![h.id] = DeliverFailure(@, h.exec)]
                         ELSE promises
        /\ pendingResults' = [x \in DOMAIN pendingResults \ {it.key} |-> pendingResults[x]]
        /\ queue' = markFailed(queue, h.id, "probe")
        /\ disk' = Serialize(queue')
  /\ inflight' = inflight \ {h}
  /\ failRun' = IF failRun.count + 1 = maxFailures
                  THEN [count |-> maxFailures, at |-> now]
                  ELSE [failRun EXCEPT !.count = IF @ < maxFailures THEN @ + 1 ELSE @]
  /\ failSeq' = AfterFailure(failSeq)
  /\ UNCHANGED <<now, processing, nextId, cleanupTimer, holdingsCache, proxyVars,
                 advances, probeSeq, probed, bypassed, acquired, restarts, processor, swept>>
  /\ lastCall' = NoCall

\* shutdown() -> stopProcessing()
Shutdown ==
  /\ processing
  /\ processing' = FALSE
  /\ lastCall' = NoCall
  /\ UNCHANGED <<now, queue, disk, inflight, nextId, cleanupTimer, orchVars, proxyVars,
                 advances, probeSeq, probed, failRun, failSeq, bypassed, acquired, restarts, processor,
                 swept>>

\* the clock moves by one of the increments in S
Advance(S) ==
  /\ advances < MaxAdvances
  /\ advances' = advances + 1
  /\ \E d \in S : now' = now + d
  /\ lastCall' = NoCall
  /\ UNCHANGED <<queueVars, orchVars, proxyVars, probeSeq, probed, failRun,
                 failSeq, bypassed, acquired, restarts, processor, swept>>

AdvanceTime == Advance(TimeSteps)

Next ==
  \/ \E k \in Users, force \in BOOLEAN : Verify(k, force)
  \/ Tick
  \/ \E h \in inflight : ProbeReturns(h)
  \/ \E h \in inflight : ProbeThrows(h)
  \/ Shutdown
  \/ AdvanceTime

Spec == Init /\ [][Next]_vars

\* The same program where the interval keeps firing while it is set and every
\* checkUserHoldings invocation terminates; callers do not force a refresh and
\* the clock is left out.
ProbeEnds == \E h \in inflight : ProbeReturns(h) \/ ProbeThrows(h)

NextFair ==
  \/ \E k \in Users : Verify(k, FALSE)
  \/ StartProbe
  \/ ProbeEnds
  \/ Shutdown

FairSpec == Init /\ [][NextFair]_vars /\ WF_vars(StartProbe) /\ WF_vars(ProbeEnds)

(* ---------------- the queue with restarts and the cleanup timer ---------------- *)
\* the process ends and the service is constructed again: the queue is read from
\* its file, everything else starts empty; handlers in flight and callers are gone
Restart ==
  /\ restarts < MaxRestarts
  /\ restarts' = restarts + 1
  /\ queue' = loadQueue(disk)
  /\ processor' = TRUE
  /\ processing' = FALSE
  /\ cleanupTimer' = FALSE
  /\ inflight' = {}
  /\ pendingResults' = <<>>
  /\ promises' = <<>>
  /\ holdingsCache' = <<>>
  /\ circuitBreaker' = [failureCount |-> 0, successCount |-> 0, isOpen |-> FALSE, openUntil |-> 0]
  /\ metrics' = [totalRequests |-> 0, successfulRequests |-> 0, failedRequests |-> 0]
  /\ proxyUsage' = [i \in 0..(NumProxies - 1) |-> 0]
  /\ currentIndex' = 0
  /\ proxies' = ProxyManagerNew(proxiesFile).proxies
  /\ poolCooldown' = ProxyManagerNew(proxiesFile).cooldown
  /\ fileReads' = ProxyManagerNew(proxiesFile).reads
  /\ loadState' = IF ProxyManagerNew(proxiesFile).threw THEN "threw" ELSE "returned"
  /\ failRun' = [count |-> 0, at |-> 0]
  /\ failSeq' = 0
  /\ lastCall' = NoCall
  /\ bypassed' = {}
  /\ acquired' = <<>>
  /\ UNCHANGED <<now, disk, nextId, advances, probeSeq, probed, swept, proxiesFile>>

\* one firing of the 5 min interval: cleanup()
Cleanup ==
  /\ cleanupTimer
  /\ LET Keep(it) == Retained(it, now)
     IN /\ queue' = SelectSeq(queue, Keep)
        /\ disk' = IF Len(queue') # Len(queue) THEN Serialize(queue') ELSE disk
        /\ swept' = swept \cup {queue[i].id : i \in {j \in 1..Len(queue) : ~Keep(queue[j])}}
  /\ lastCall' = NoCall
  /\ UNCHANGED <<now, processing, inflight, nextId, cleanupTimer, orchVars, proxyVars,
                 advances, probeSeq, probed, failRun, failSeq, bypassed, acquired, restarts, processor>>

\* clock increments around the retention window
QueueTimeSteps == {1, RetentionWindow - 1}

QueueAdvance == Advance(QueueTimeSteps)

\* a call, within the number of work items explored over all restarts
QueueVerify == nextId <= MaxCalls /\ \E k \in Users : Verify(k, FALSE)

QueueNext ==
  \/ QueueVerify
  \/ Tick
  \/ ProbeEnds
  \/ Restart
  \/ Cleanup
  \/ QueueAdvance

\* The program over restarts and retention sweeps; callers do not force a refresh
\* and shutdown() is not called.
QueueSpec == Init /\ [][QueueNext]_vars

(* ---------------- the proxy pool alone ---------------- *)
\* clock increments around the cooldown period
PoolTimeSteps == {1, cooldownPeriod - 1}

\* a getNextAvailableProxy call
AcquireCall ==
  /\ Len(acquired) < MaxAcquires
  /\ Acquire
  /\ lastCall' = NoCall
  /\ UNCHANGED <<now, queueVars, orchVars, advances, probeSeq, probed, failRun,
                 failSeq, bypassed, restarts, processor, swept>>

PoolAdvance == Advance(PoolTimeSteps)

PoolNext == AcquireCall \/ PoolAdvance

\* ProxyManager driven by a sequence of getNextAvailableProxy calls at arbitrary times
PoolSpec == Init /\ [][PoolNext]_vars

(* ---------------- construction of the proxy pool ---------------- *)
\* before new ProxyManager(): any state of proxies.txt
LoadInit ==
  /\ proxiesFile \in ProxiesFiles
  /\ proxies = <<>>
  /\ poolCooldown = cooldownPeriod
  /\ fileReads = 0
  /\ loadState = "new"
  /\ processor = FALSE
  /\ now = StartTime
  /\ queue = loadQueue(NoFile)
  /\ disk = Serialize(loadQueue(NoFile))
  /\ nextId = 1
  /\ probed = <<>>
  /\ processing = FALSE
  /\ inflight = {}
  /\ pendingResults = <<>>
  /\ promises = <<>>
  /\ holdingsCache = <<>>
  /\ circuitBreaker = [failureCount |-> 0, successCount |-> 0, isOpen |-> FALSE, openUntil |-> 0]
  /\ metrics = [totalRequests |-> 0, successfulRequests |-> 0, failedRequests |-> 0]
  /\ proxyUsage = [i \in 0..(NumProxies - 1) |-> 0]
  /\ currentIndex = 0
  /\ advances = 0
  /\ probeSeq = 0
  /\ failRun = [count |-> 0, at |-> 0]
  /\ failSeq = 0
  /\ lastCall = NoCall
  /\ cleanupTimer = FALSE
  /\ bypassed = {}
  /\ acquired = <<>>
  /\ restarts = 0
  /\ swept = {}

\* new ProxyManager(): the constructor, which ends with loadProxies()
Construct ==
  /\ loadState = "new"
  /\ LET r == ProxyManagerNew(proxiesFile)
     IN /\ proxies' = r.proxies
        /\ poolCooldown' = r.cooldown
        /\ fileReads' = r.reads
        /\ loadState' = IF r.threw THEN "threw" ELSE "returned"
  /\ UNCHANGED <<now, queueVars, orchVars, proxyUsage, currentIndex, proxiesFile,
                 histVars, processor>>

LoadNext == Construct

\* the ProxyManager constructor run against every state of proxies.txt
LoadSpec == LoadInit /\ [][LoadNext]_vars

(* ---------------- restarts under a fair scheduler ---------------- *)
ReloadNext ==
  \/ QueueVerify
  \/ StartProbe
  \/ ProbeEnds
  \/ Restart

\* The program over restarts, without shutdown: while the interval is set it keeps
\* firing, and every probe that was started ends
ReloadFairSpec ==
  Init /\ [][ReloadNext]_vars /\ WF_vars(StartProbe) /\ WF_vars(ProbeEnds)

(* ---------------- PersistentQueue with an arbitrary processor ---------------- *)
\* what an invocation of the processor can end with: a result with success set,
\* a result without it, no result, or an exception
HandlerOutcomes == {"success", "failure", "undefined", "throws"}

\* the four ways processNext ends an invocation: markCompleted, or markFailed
\* with result.error, 'Unknown error' or the message of the exception
processNextEnd(q, id, o, t) ==
  CASE o = "success"   -> markCompleted(q, id, t)
    [] o = "failure"   -> markFailed(q, id, "probe")
    [] o = "undefined" -> markFailed(q, id, "Unknown error")
    [] o = "throws"    -> markFailed(q, id, "thrown")

\* add(item) called on the queue by itself
add(k) ==
  /\ nextId <= MaxCalls
  /\ queue' = Append(queue, QueueItem(nextId, k))
  /\ disk' = Serialize(queue')
  /\ probed' = (nextId :> 0) @@ probed
  /\ nextId' = nextId + 1
  /\ processing' = TRUE
  /\ cleanupTimer' = (cleanupTimer \/ ~processing)
  /\ lastCall' = NoCall
  /\ UNCHANGED <<now, inflight, orchVars, proxyVars, advances, probeSeq, failRun, failSeq,
                 bypassed, acquired, restarts, processor, swept>>

\* setProcessor(processorFunction)
setProcessor ==
  /\ ~processor
  /\ processor' = TRUE
  /\ lastCall' = NoCall
  /\ UNCHANGED <<now, queueVars, orchVars, proxyVars, advances, probeSeq, probed, failRun,
                 failSeq, bypassed, acquired, restarts, swept>>

\* one firing of the 1 s interval with a processor set: getNext, then the
\* processor is invoked and will end with outcome o
Invoke(o) ==
  /\ IntervalSet
  /\ processor
  /\ Eligible(queue) # {}
  /\ LET i == getNext(queue)
     IN /\ queue' = [queue EXCEPT ![i].status = "processing"]
        /\ disk' = Serialize(queue')
        /\ probeSeq' = probeSeq + 1
        /\ inflight' = inflight \cup {[id |-> queue[i].id, exec |-> probeSeq + 1,
                                       outcome |-> o]}
        /\ probed' = [probed EXCEPT ![queue[i].id] = @ + 1]
  /\ lastCall' = NoCall
  /\ UNCHANGED <<now, processing, nextId, cleanupTimer, orchVars, proxyVars, advances,
                 failRun, failSeq, bypassed, acquired, restarts, processor, swept>>

\* the rest of processNext once the processor has returned or thrown
HandlerEnds(h) ==
  /\ h \in inflight
  /\ queue' = processNextEnd(queue, h.id, h.outcome, now)
  /\ disk' = Serialize(queue')
  /\ inflight' = inflight \ {h}
  /\ lastCall' = NoCall
  /\ UNCHANGED <<now, processing, nextId, cleanupTimer, orchVars, proxyVars, advances, probeSeq,
                 probed, failRun, failSeq, bypassed, acquired, restarts, processor, swept>>

\* one firing of the 1 s interval with no processor set: getNext, then
\* markFailed(item.id, 'No processor function set')
NoProcessorTick ==
  /\ IntervalSet
  /\ ~processor
  /\ Eligible(queue) # {}
  /\ LET i == getNext(queue)
     IN queue' = markFailed([queue EXCEPT ![i].status = "processing"], queue[i].id,
                            "No processor function set")
  /\ disk' = Serialize(queue')
  /\ probeSeq' = probeSeq + 1
  /\ lastCall' = NoCall
  /\ UNCHANGED <<now, processing, inflight, nextId, cleanupTimer, orchVars, proxyVars, advances,
                 probed, failRun, failSeq, bypassed, acquired, restarts, processor, swept>>

\* the interval callback, within the number of firings explored
HandlerTick ==
  /\ probeSeq < MaxProbes
  /\ \/ \E o \in HandlerOutcomes : Invoke(o)
     \/ NoProcessorTick

HandlerNext ==
  \/ \E k \in Users : add(k)
  \/ setProcessor
  \/ HandlerTick
  \/ \E h \in inflight : HandlerEnds(h)

\* PersistentQueue by itself: a client adds items, and the processor, once set,
\* may return anything or throw
HandlerSpec == Constructed(FALSE) /\ [][HandlerNext]_vars

(* ---------------- observations used by the properties ---------------- *)
\* the last step was a verifyUserHoldsTokens call
Called == lastCall.path # "none"

NumPending(q) == Cardinality({i \in 1..Len(q) : q[i].status = "pending"})

IsResult(r) ==
  /\ DOMAIN r = {"verified", "reason", "hasTokens", "exec"}
  /\ r.verified \in BOOLEAN
  /\ r.hasTokens \in BOOLEAN
  /\ r.reason # ""

(* ---------------- C1 ---------------- *)
\* C1 (single-flight): the probe is invoked at most once for a request that
\* verifyUserHoldsTokens enqueued, and exactly once by the time its callers have
\* their Result, whether the probe succeeded or failed.
C1_ProbeOnce ==
  \A i \in 1..Len(queue) :
    /\ probed[queue[i].id] <= 1
    /\ promises[queue[i].id].state = "fulfilled" => probed[queue[i].id] = 1

(* ---------------- C2 ---------------- *)
\* C2 (Verify is total): no promise handed to a caller is ever rejected; whatever
\* a call returns or a promise is fulfilled with is a Result object; and a request
\* whose first probe threw has been answered with verified = false and the
\* failure reason.
C2_AlwaysResult ==
  /\ \A p \in DOMAIN promises :
       /\ promises[p].state \in {"pending", "fulfilled"}
       /\ promises[p].state = "fulfilled" => IsResult(promises[p].value)
  /\ lastCall.path \in {"breaker", "overload", "cache"} => IsResult(lastCall.result)
  /\ lastCall.path \in {"join", "enqueue"} => lastCall.promise \in DOMAIN promises
  /\ \A i \in 1..Len(queue) :
       (queue[i].hasResolve /\ queue[i].attempts >= 1) =>
         /\ promises[queue[i].id].state = "fulfilled"
         /\ promises[queue[i].id].value.verified = FALSE
         /\ promises[queue[i].id].value.reason = "Verification failed"

\* the callers of a request were answered with the failed Result of a probe
\* that threw, and the request is back in the queue
C2_Witness ==
  \E i \in 1..Len(queue) :
    /\ queue[i].attempts = 1
    /\ promises[queue[i].id].state = "fulfilled"
    /\ promises[queue[i].id].value.reason = "Verification failed"
    /\ ~promises[queue[i].id].value.verified

(* ---------------- C3 ---------------- *)
\* C3 (every call returns): whenever a caller is awaiting a promise, that promise
\* is eventually fulfilled.  The calls that do not await return in the step that
\* makes them.
C3_EveryCallReturns ==
  \A p \in 1..MaxCalls :
    (p \in DOMAIN promises /\ promises[p].state = "pending")
      ~> (p \in DOMAIN promises /\ promises[p].state = "fulfilled")

(* ---------------- C4 ---------------- *)
\* C4 (fail fast after maxFailures consecutive probe failures): a call made less
\* than resetTimeout after the maxFailures-th consecutive probe failure returns
\* the breaker-open Result and touches neither the queue, the pending map nor
\* the proxy pool.
C4_FailFastAfterFailures ==
  (Called /\ failRun.at > 0 /\ now < failRun.at + 60000) =>
    /\ lastCall.path = "breaker"
    /\ lastCall.result = BreakerOpenResult
    /\ queue = lastCall.found.queue
    /\ pendingResults = lastCall.found.pendingResults
    /\ proxyUsage = lastCall.found.proxyUsage

(* ---------------- C5 ---------------- *)
\* C5 (no probe while Open): in a step that starts and ends with the breaker
\* Open, no probe starts and no proxy is acquired.
C5_NoProbeWhileOpen ==
  [][ (circuitBreaker.isOpen /\ circuitBreaker'.isOpen) =>
        (probeSeq' = probeSeq /\ proxyUsage' = proxyUsage) ]_vars

(* ---------------- C6 ---------------- *)
\* C6 (breaker healing): a call that finds the breaker Open with now <= openUntil
\* leaves it Open and is rejected; a call that finds it Open with now > openUntil
\* closes it with failureCount reset to 0 and goes on to the backpressure check
\* (the only thing that can raise the count again within that call).
C6_BreakerHeals ==
  (Called /\ lastCall.found.circuitBreaker.isOpen) =>
    IF now <= lastCall.found.circuitBreaker.openUntil
      THEN /\ circuitBreaker = lastCall.found.circuitBreaker
           /\ lastCall.path = "breaker"
           /\ lastCall.result = BreakerOpenResult
      ELSE /\ ~circuitBreaker.isOpen
           /\ lastCall.path \in {"overload", "cache", "join", "enqueue"}
           /\ circuitBreaker.failureCount = IF lastCall.path = "overload" THEN 1 ELSE 0

\* the breaker was Open, the timeout has passed, and the call that closed it was
\* queued for a probe
C6_Witness ==
  /\ lastCall.found.circuitBreaker.isOpen
  /\ now = lastCall.found.circuitBreaker.openUntil + 1
  /\ ~circuitBreaker.isOpen
  /\ circuitBreaker.failureCount = 0
  /\ lastCall.path = "enqueue"

(* ---------------- C7 ---------------- *)
\* C7 (backpressure): a call that gets past the breaker check with more than
\* maxQueueSize pending items returns the queue-overloaded Result, which differs
\* from the breaker-open one, adds nothing to the queue or the pending map and
\* records exactly one breaker failure; with at most maxQueueSize pending items
\* no call is rejected for backpressure.
C7_Backpressure ==
  (Called /\ lastCall.path # "breaker") =>
    IF NumPending(lastCall.found.queue) > maxQueueSize
      THEN /\ lastCall.path = "overload"
           /\ lastCall.result = QueueOverloadedResult
           /\ lastCall.result.reason # BreakerOpenResult.reason
           /\ queue = lastCall.found.queue
           /\ disk = Serialize(lastCall.found.queue)
           /\ pendingResults = lastCall.found.pendingResults
           /\ promises = lastCall.found.promises
           /\ circuitBreaker.failureCount =
                (IF lastCall.found.circuitBreaker.isOpen
                   THEN 0 ELSE lastCall.found.circuitBreaker.failureCount) + 1
      ELSE lastCall.path # "overload"

\* a call was rejected for backpressure
C7_Witness ==
  /\ lastCall.path = "overload"
  /\ NumPending(queue) = maxQueueSize + 1
  /\ circuitBreaker.failureCount = 1

C9_CacheExpiry ==
  (/\ Called
   /\ lastCall.key \in DOMAIN lastCall.found.holdingsCache
   /\ now - lastCall.found.holdingsCache[lastCall.key].timestamp >= 300000
   /\ lastCall.key \notin DOMAIN lastCall.found.pendingResults
   /\ lastCall.path \notin {"breaker", "overload"}) =>
    /\ lastCall.path = "enqueue"
    /\ Len(queue) = Len(lastCall.found.queue) + 1
    /\ queue[Len(queue)].key = lastCall.key
    /\ queue[Len(queue)].status = "pending"
    /\ queue[Len(queue)].attempts = 0
    /\ pendingResults[lastCall.key] = queue[Len(queue)].id
    /\ lastCall.promise = queue[Len(queue)].id
    /\ promises[lastCall.promise].state = "pending"

\* a non-forced call found an entry exactly TTL old and was enqueued
C9_Witness ==
  /\ lastCall.path = "enqueue"
  /\ ~lastCall.force
  /\ lastCall.key \in DOMAIN holdingsCache
  /\ now - holdingsCache[lastCall.key].timestamp = 300000
  /\ queue[Len(queue)].key = lastCall.key
  /\ queue[Len(queue)].status = "pending"

(* ---------------- C10 ---------------- *)
\* C10 (force refresh bypasses the cache read): a forced call is never answered
\* from the cache; it is rejected for overload (breaker or queue) or awaits a
\* promise that is still pending when the call is made.
C10_ForceBypassesCache ==
  (Called /\ lastCall.force) =>
    \/ /\ lastCall.path = "breaker"
       /\ lastCall.result = BreakerOpenResult
    \/ /\ lastCall.path = "overload"
       /\ lastCall.result = QueueOverloadedResult
    \/ /\ lastCall.path \in {"join", "enqueue"}
       /\ lastCall.promise \in DOMAIN promises
       /\ promises[lastCall.promise].state = "pending"

\* a forced call was enqueued although a fresh entry existed for its key
C10_Witness ==
  /\ lastCall.force
  /\ lastCall.path = "enqueue"
  /\ lastCall.key \in DOMAIN holdingsCache
  /\ now - holdingsCache[lastCall.key].timestamp < 300000
  /\ promises[lastCall.promise].state = "pending"

(* ---------------- C11 ---------------- *)
\* the work item created together with promise p
ItemOf(p) == queue[CHOOSE i \in 1..Len(queue) : queue[i].id = p]

\* C11 as stated (forced refresh writes through on completion): once the promise
\* awaited by a forceRefresh call that skipped a fresh entry is fulfilled, the
\* cache no longer holds the skipped entry.
C11_WriteThroughAlways ==
  \A b \in bypassed :
    promises[b.promise].state = "fulfilled" =>
      holdingsCache[ItemOf(b.promise).key] # b.entry

\* C11 as amended (write-through of a successful refresh): once the promise
\* awaited by a forceRefresh call that skipped a fresh entry is fulfilled with the
\* Result of a probe that returned, the cache entry of the key is not the skipped
\* entry and is not older than the completion; it holds exactly that Result with
\* the completion time unless another request for the key completed as well; and
\* a call answered from the cache gets the entry now held, never the skipped one.
C11_WriteThrough ==
  \A b \in bypassed :
    (promises[b.promise].state = "fulfilled" /\ promises[b.promise].value.verified) =>
      LET it == ItemOf(b.promise)
          k  == it.key
      IN /\ it.status = "completed"
         /\ k \in DOMAIN holdingsCache
         /\ holdingsCache[k] # b.entry
         /\ holdingsCache[k].result.exec # b.entry.result.exec
         /\ holdingsCache[k].timestamp >= it.completedAt
         /\ (\A j \in 1..Len(queue) :
               (queue[j].key = k /\ queue[j].status = "completed") => queue[j].id = it.id)
              => holdingsCache[k] = [result |-> promises[b.promise].value,
                                     timestamp |-> it.completedAt]
         /\ (lastCall.path = "cache" /\ lastCall.key = k) =>
              /\ lastCall.result = holdingsCache[k].result
              /\ lastCall.result # b.entry.result

\* a forced call skipped a fresh entry, its probe returned, and a later
\* non-forced call within the TTL was answered with the refreshed Result
C11_Witness ==
  \E b \in bypassed :
    /\ promises[b.promise].state = "fulfilled"
    /\ promises[b.promise].value.verified
    /\ lastCall.path = "cache"
    /\ ~lastCall.force
    /\ lastCall.key = ItemOf(b.promise).key
    /\ lastCall.result = promises[b.promise].value
    /\ lastCall.result # b.entry.result

(* ---------------- observations of the proxy pool ---------------- *)
Pool == 0..(NumProxies - 1)

\* proxyUsage as the i-th getNextAvailableProxy call left it
UsageAfter(i) == IF i < Len(acquired) THEN acquired[i + 1].usage ELSE proxyUsage

\* no proxy / every proxy was in cooldown when the i-th call was made
NoneInCooldown(i) == \A j \in Pool : acquired[i].t - acquired[i].usage[j] >= cooldownPeriod
AllInCooldown(i) == \A j \in Pool : acquired[i].t - acquired[i].usage[j] < cooldownPeriod

(* ---------------- C12 ---------------- *)
\* C12 (cooldown fairness): NumProxies consecutive getNextAvailableProxy calls made
\* at the same instant, the first of them finding no proxy in cooldown, return
\* pairwise distinct proxies.
C12_DistinctWhenFree ==
  \A i \in 1..Len(acquired) :
    (/\ i + NumProxies - 1 <= Len(acquired)
     /\ NoneInCooldown(i)
     /\ \A m \in i..(i + NumProxies - 1) : acquired[m].t = acquired[i].t) =>
      \A m, n \in i..(i + NumProxies - 1) :
        m # n => acquired[m].proxy # acquired[n].proxy

\* such a run of calls was made after the clock had moved
C12_Witness ==
  \E i \in 1..Len(acquired) :
    /\ i + NumProxies - 1 <= Len(acquired)
    /\ NoneInCooldown(i)
    /\ acquired[i].t > StartTime
    /\ \A m \in i..(i + NumProxies - 1) : acquired[m].t = acquired[i].t
    /\ {acquired[m].proxy : m \in i..(i + NumProxies - 1)} = Pool

(* ---------------- C13 ---------------- *)
\* C13 (least recently used under full cooldown): a getNextAvailableProxy call that
\* finds every proxy in cooldown returns a proxy whose last use is minimal over
\* the pool and leaves it marked as used at the time of the call.
C13_OldestWhenAllCooling ==
  \A i \in 1..Len(acquired) :
    AllInCooldown(i) =>
      /\ \A j \in Pool : acquired[i].usage[acquired[i].proxy] <= acquired[i].usage[j]
      /\ UsageAfter(i)[acquired[i].proxy] = acquired[i].t

\* two calls in a row found every proxy in cooldown, with different last uses
C13_Witness ==
  \E i \in 1..Len(acquired) :
    /\ i + 1 <= Len(acquired)
    /\ AllInCooldown(i)
    /\ AllInCooldown(i + 1)
    /\ \E j \in Pool : acquired[i].usage[j] > acquired[i].usage[acquired[i].proxy]
    /\ \E j \in Pool : acquired[i + 1].usage[j] > acquired[i + 1].usage[acquired[i + 1].proxy]
    /\ acquired[i].usage[acquired[i].proxy] < acquired[i].t

(* ---------------- C14 ---------------- *)
\* C14 (getNextAvailableProxy never fails): every call returns a proxy of the pool,
\* and when it returns the last use of that proxy is the time of the call.
C14_AcquireTotal ==
  \A i \in 1..Len(acquired) :
    /\ acquired[i].proxy \in Pool
    /\ UsageAfter(i)[acquired[i].proxy] = acquired[i].t

\* calls were served by each of the three branches: a proxy out of cooldown, the
\* oldest proxy in cooldown, and the first proxy when all were used at this instant
C14_Witness ==
  /\ \E i \in 1..Len(acquired) : ~AllInCooldown(i)
  /\ \E i \in 1..Len(acquired) :
       AllInCooldown(i) /\ acquired[i].usage[acquired[i].proxy] < acquired[i].t
  /\ \E i \in 1..Len(acquired) :
       \A j \in Pool : acquired[i].usage[j] = acquired[i].t

(* ---------------- C15 ---------------- *)
\* C15 (retry exhaustion): no work item is passed to the handler more than
\* maxAttempts times, and an item whose handler has failed maxAttempts times is
\* failed with attempts = maxAttempts exactly, is not in the hands of a handler
\* and is not one the ticker can select.
C15_RetryExhaustion ==
  \A i \in 1..Len(queue) :
    /\ probed[queue[i].id] <= 3
    /\ queue[i].attempts >= 3 =>
         /\ queue[i].status = "failed"
         /\ queue[i].attempts = 3
         /\ probed[queue[i].id] = 3
         /\ \A h \in inflight : h.id # queue[i].id
         /\ ~(queue[i].status = "pending" /\ queue[i].attempts < 3)

\* an item has exhausted its attempts and the ticker has since started probes of
\* items behind it
C15_Witness ==
  \E i \in 1..Len(queue) :
    /\ queue[i].status = "failed"
    /\ queue[i].attempts = 3
    /\ probeSeq > 3
    /\ \E j \in 1..Len(queue) : j > i /\ probed[queue[j].id] >= 1

(* ---------------- C16 ---------------- *)
\* C16 (attempts invariant): in every queue state, also after a reload and a
\* retention sweep, every work item has 0 <= attempts <= maxAttempts, a failed
\* item has attempts = maxAttempts and a pending item has attempts < maxAttempts.
C16_AttemptsBounded ==
  \A i \in 1..Len(queue) :
    /\ queue[i].attempts >= 0
    /\ queue[i].attempts <= 3
    /\ queue[i].status = "failed" => queue[i].attempts = 3
    /\ queue[i].status = "pending" => queue[i].attempts < 3

\* an item reloaded from the file has exhausted its attempts while a newer item
\* is still pending
C16_Witness ==
  /\ restarts > 0
  /\ \E i, j \in 1..Len(queue) :
       /\ queue[i].status = "failed"
       /\ queue[i].attempts = 3
       /\ ~queue[i].hasResolve
       /\ queue[j].status = "pending"
       /\ queue[j].attempts = 0

(* ---------------- C17 ---------------- *)
\* what a restart at this point would read from the queue file
Reloaded == loadQueue(disk)

C18_NoProcessingAfterReload ==
  \A i \in 1..Len(queue) :
    queue[i].status = "processing" => \E h \in inflight : h.id = queue[i].id

(* ---------------- C19 ---------------- *)
\* C19 (probe failures are not queue failures): a work item whose probe threw, so
\* that its waiters got the failed Result, is completed with attempts still 0 and
\* has been probed once.
C19_ProbeFailureCompletes ==
  \A i \in 1..Len(queue) :
    (/\ queue[i].hasResolve
     /\ promises[queue[i].id].state = "fulfilled"
     /\ promises[queue[i].id].value.reason = "Verification failed") =>
      /\ queue[i].status = "completed"
      /\ queue[i].attempts = 0
      /\ probed[queue[i].id] = 1

(* ---------------- C20 ---------------- *)
\* C20 (single worker): at most one handler invocation is in flight and at most
\* one work item is processing.
C20_SingleWorker ==
  /\ Cardinality(inflight) <= 1
  /\ Cardinality({i \in 1..Len(queue) : queue[i].status = "processing"}) <= 1

(* ---------------- C21 ---------------- *)
\* the processing loop was started and has been stopped
Stopped == cleanupTimer /\ ~processing

\* some work item goes from pending to processing in this step
Dequeues ==
  \E i \in 1..Len(queue) :
    i <= Len(queue') /\ queue[i].status = "pending" /\ queue'[i].status = "processing"

\* C21 as stated (Stop halts the loop for good): once the loop has been stopped,
\* no further probe is started, i.e. no work item goes from pending to processing.
C21_HaltedForGood ==
  \A n \in 0..(maxAttempts * MaxCalls) :
    [](Stopped /\ probeSeq = n => [](probeSeq = n))

\* C21 as amended (Stop halts the loop until the next enqueue): a work item goes
\* from pending to processing only while the loop runs; stopping it changes no
\* item and leaves the handlers in flight; only an enqueue sets it running
\* again; and a handler that finishes while the loop is stopped has its
\* transition (completed, back to pending, or failed) applied and persisted.
C21_StopHalts ==
  [][ /\ Dequeues => processing
      /\ (processing /\ ~processing') => UNCHANGED <<queue, disk, inflight>>
      /\ (~processing /\ processing') =>
           /\ Len(queue') = Len(queue) + 1
           /\ queue'[Len(queue')].status = "pending"
      /\ (~processing /\ ~processing') =>
           \A h \in inflight \ inflight' :
             \E i \in 1..Len(queue) :
               /\ queue[i].id = h.id
               /\ queue[i].status = "processing"
               /\ queue'[i].status \in {"completed", "pending", "failed"}
               /\ disk'[i].status = queue'[i].status
               /\ disk'[i].attempts = queue'[i].attempts
    ]_vars

\* the loop is stopped, a handler that was in flight then has since finished
\* with a retry, and pending items are waiting
C21_Witness ==
  /\ Stopped
  /\ inflight = {}
  /\ \E i \in 1..Len(queue) :
       /\ queue[i].status = "pending"
       /\ queue[i].attempts = 1
       /\ probeSeq = 1
  /\ \E j \in 1..Len(queue) : queue[j].status = "pending" /\ queue[j].attempts = 0

(* ---------------- C22 ---------------- *)
\* C22 (a pending request is removed only when the work item it was created
\* with resolves): as long as the promise created by a call is unsettled, the
\* pendingResults entry of its key is still there and still holds that promise;
\* no execution of another work item takes it away.
C22_RemovedOnlyByOwnItem ==
  \A p \in DOMAIN promises :
    promises[p].state = "pending" =>
      /\ ItemOf(p).key \in DOMAIN pendingResults
      /\ pendingResults[ItemOf(p).key] = p

C24_OpenAtThreshold ==
  circuitBreaker.failureCount >= maxFailures => circuitBreaker.isOpen

(* ---------------- C25 ---------------- *)
\* C25 (decay on success): failureCount is never negative; as long as no
\* failure has been recorded directly after another failure, failureCount stays
\* below maxFailures and the breaker is not open; and every successful probe
\* lowers failureCount by exactly one, or leaves it at 0.
C25_SuccessDecays ==
  /\ [](/\ circuitBreaker.failureCount >= 0
        /\ failSeq < 2 =>
             /\ ~circuitBreaker.isOpen
             /\ circuitBreaker.failureCount < maxFailures)
  /\ [][circuitBreaker'.successCount = circuitBreaker.successCount + 1 =>
          circuitBreaker'.failureCount =
            IF circuitBreaker.failureCount = 0 THEN 0 ELSE circuitBreaker.failureCount - 1
       ]_vars

\* failures and successes have alternated (two successes, at least one failure,
\* the last outcome a success) and the count is back at 0
C25_Witness ==
  /\ failSeq = 0
  /\ circuitBreaker.successCount >= 2
  /\ metrics.failedRequests >= 1
  /\ circuitBreaker.failureCount = 0
  /\ ~circuitBreaker.isOpen

(* ---------------- C26 ---------------- *)
\* C26 (one breaker failure and one failed-request metric per failed request):
\* when the only call made so far enqueued a request whose probe threw and whose
\* work item has reached completed or failed, failedRequests is 1, the item has
\* been failed once, and failureCount is 1 unless a later success lowered it.
C26_OneFailurePerRequest ==
  (/\ metrics.totalRequests = 1
   /\ Len(queue) = 1
   /\ queue[1].status \in {"completed", "failed"}
   /\ queue[1].attempts >= 1) =>
     /\ metrics.failedRequests = 1
     /\ queue[1].attempts = 1
     /\ circuitBreaker.failureCount = 1 - circuitBreaker.successCount

(* ---------------- C27 ---------------- *)
\* C27 (FIFO selection): the queue is always in enqueue order (ids ascending), so
\* a failed item that went back to pending is where it was; and whenever a step
\* moves an item from pending to processing, that item had attempts below 3 and
\* no pending item with attempts below 3 was enqueued before it.
C27_FIFO ==
  /\ [](\A i, j \in 1..Len(queue) : i < j => queue[i].id < queue[j].id)
  /\ [][\A i \in 1..Len(queue) : \A j \in 1..Len(queue') :
          (/\ queue[i].id = queue'[j].id
           /\ queue[i].status = "pending"
           /\ queue'[j].status = "processing") =>
            /\ queue[i].attempts < 3
            /\ \A k \in 1..Len(queue) :
                 (queue[k].status = "pending" /\ queue[k].attempts < 3) =>
                   (i <= k /\ queue[i].id <= queue[k].id)
       ]_vars

\* an item that failed before has been selected again while an item enqueued
\* after it is still waiting for its first attempt
C27_Witness ==
  \E i, j \in 1..Len(queue) :
    /\ i < j
    /\ queue[i].status = "processing"
    /\ queue[i].attempts >= 1
    /\ queue[j].status = "pending"
    /\ queue[j].attempts = 0
    /\ probed[queue[j].id] = 0

FailedOnce(i, err) ==
  /\ Len(queue') = Len(queue)
  /\ queue'[i].id = queue[i].id
  /\ queue'[i].attempts = queue[i].attempts + 1
  /\ queue'[i].status = (IF queue[i].attempts + 1 >= 3 THEN "failed" ELSE "pending")
  /\ queue'[i].lastError = err
  /\ \A j \in 1..Len(queue) : j # i => queue'[j] = queue[j]
  /\ disk'[i].attempts = queue'[i].attempts
  /\ disk'[i].status = queue'[i].status
  /\ processing /\ processing'

\* C29 (a throwing or missing handler is one failed attempt): when an invocation
\* of the processor that throws ends, and when the interval fires with no
\* processor set, exactly the item concerned gets attempts + 1, status pending
\* or failed, and lastError set, and the loop stays running.
C29_ThrowIsOneAttempt ==
  [][ /\ \A h \in inflight \ inflight' :
           h.outcome = "throws" =>
             \E i \in 1..Len(queue) :
               /\ queue[i].id = h.id
               /\ queue[i].status = "processing"
               /\ FailedOnce(i, "thrown")
      /\ (~processor /\ ~processor' /\ probeSeq' # probeSeq) =>
           \E i \in 1..Len(queue) :
             /\ queue[i].status = "pending"
             /\ \A j \in 1..(i - 1) : queue[j].status # "pending"
             /\ FailedOnce(i, "No processor function set")
    ]_vars

\* an item failed once for want of a processor and once by an exception, and a
\* later firing of the interval has handed it to the processor again
C29_Witness ==
  \E i \in 1..Len(queue) :
    /\ queue[i].attempts = 2
    /\ queue[i].lastError = "thrown"
    /\ probed[queue[i].id] = 2
    /\ queue[i].status = "processing"
    /\ processing

(* ---------------- C30 ---------------- *)
\* the positions of the items that this step removes from the queue
Removed == {i \in 1..Len(queue) : \A j \in 1..Len(queue') : queue'[j].id # queue[i].id}

IndexAfter(i) == IF i < Len(acquired) THEN acquired[i + 1].index ELSE currentIndex

\* the proxies that had cleared their cooldown when the i-th call was made
Cleared(i) == {j \in Pool : acquired[i].t - acquired[i].usage[j] >= 76000}

\* the number of steps from the cursor the i-th call found to proxy j, going round
StepsFromCursor(i, j) == (j + NumProxies - acquired[i].index) % NumProxies

\* C31 (round-robin with cooldown): a getNextAvailableProxy call that finds some
\* proxy out of cooldown returns a proxy out of cooldown, namely the one nearest
\* to the cursor going round from it, and leaves the cursor just past that proxy.
C31_RoundRobin ==
  \A i \in 1..Len(acquired) :
    Cleared(i) # {} =>
      /\ acquired[i].proxy \in Cleared(i)
      /\ \A j \in Cleared(i) :
           StepsFromCursor(i, acquired[i].proxy) <= StepsFromCursor(i, j)
      /\ IndexAfter(i) = (acquired[i].proxy + 1) % NumProxies

\* a call found the proxy under the cursor in cooldown and another one out of
\* it, and returned the latter
C31_Witness ==
  \E i \in 1..Len(acquired) :
    /\ acquired[i].index \notin Cleared(i)
    /\ Cleared(i) # {}
    /\ acquired[i].proxy # acquired[i].index
    /\ acquired[i].t > StartTime

C33_Lifecycle ==
  [][\A i \in 1..Len(queue) : \A j \in 1..Len(queue') :
       queue[i].id = queue'[j].id =>
         LET a == queue[i]
             b == queue'[j]
         IN \/ b.status = a.status /\ b.attempts = a.attempts
            \/ /\ a.status = "pending"
               /\ b.status = "processing"
               /\ b.attempts = a.attempts
            \/ /\ a.status = "processing"
               /\ b.status = "completed"
               /\ b.attempts = a.attempts
            \/ /\ a.status = "processing"
               /\ b.status \in {"pending", "failed"}
               /\ b.attempts = a.attempts + 1
    ]_vars

\* an item went through two retries and was then completed, and a restart has
\* left it as it was
C33_Witness ==
  \E i \in 1..Len(queue) :
    /\ queue[i].status = "completed"
    /\ queue[i].attempts = 2
    /\ probed[queue[i].id] = 3
    /\ restarts > 0

(* ---------------- C34 ---------------- *)
\* C34 (one live work item per key): no two items of the queue that are pending
\* or processing have the same key.
C34_OneLiveItemPerKey ==
  \A i, j \in 1..Len(queue) :
    (/\ i # j
     /\ queue[i].key = queue[j].key
     /\ queue[i].status \in {"pending", "processing"}) =>
      queue[j].status \notin {"pending", "processing"}

(* ---------------- C35 ---------------- *)
\* C35 (backpressure bounds the queue): the number of pending work items never
\* exceeds maxQueueSize + 1.
C35_PendingBounded == NumPending(queue) <= maxQueueSize + 1

(* ---------------- C36 ---------------- *)
\* the work item with this id is in the queue, in one of these statuses
ItemIn(id, statuses) ==
  \E i \in 1..Len(queue) : queue[i].id = id /\ queue[i].status \in statuses

\* C36 (every pending item is processed): a work item that is pending with
\* attempts below maxAttempts, enqueued by this process or read from the queue
\* file when the queue was constructed, eventually is completed or failed.
C36_PendingIsProcessed ==
  \A id \in 1..MaxCalls :
    (\E i \in 1..Len(queue) :
       queue[i].id = id /\ queue[i].status = "pending" /\ queue[i].attempts < 3)
      ~> ItemIn(id, {"completed", "failed"})

(* ---------------- C37 ---------------- *)
\* C37 (metrics consistency): the successes and failures counted so far are not
\* more than the calls counted so far.
C37_MetricsConsistent ==
  metrics.successfulRequests + metrics.failedRequests <= metrics.totalRequests

(* ---------------- C38 ---------------- *)
\* the failure count the breaker held when the call left the breaker check: the
\* backpressure rejection is the only later step of the call that changes it
CountAtCheck ==
  IF lastCall.path = "overload" THEN circuitBreaker.failureCount - 1
                                ELSE circuitBreaker.failureCount

\* C38 (the breaker check is a gate): every call that went on to the backpressure,
\* cache, dedup or enqueue step left the breaker check with the breaker Closed and
\* failureCount < maxFailures; a call that found failureCount >= maxFailures got
\* past only when the breaker was Open and expired, and then with the count at 0.
C38_GateHolds ==
  (Called /\ lastCall.path \in {"overload", "cache", "join", "enqueue"}) =>
    /\ ~circuitBreaker.isOpen
    /\ CountAtCheck < maxFailures
    /\ lastCall.found.circuitBreaker.failureCount >= maxFailures =>
         /\ lastCall.found.circuitBreaker.isOpen
         /\ now > lastCall.found.circuitBreaker.openUntil
         /\ CountAtCheck = 0

\* a call passed the check with one failure short of the threshold and was then
\* rejected by the backpressure check, which carried the count to the threshold
C38_Witness ==
  /\ Called
  /\ lastCall.path = "overload"
  /\ ~lastCall.found.circuitBreaker.isOpen
  /\ lastCall.found.circuitBreaker.failureCount = maxFailures - 1
  /\ circuitBreaker.failureCount = maxFailures
  /\ ~circuitBreaker.isOpen

(* ---------------- C39 ---------------- *)
\* C39 (no immediate repeat): with two or more identities, two consecutive
\* getNextAvailableProxy calls never return the same identity, whatever the time
\* between them.
C39_NoImmediateRepeat ==
  NumProxies >= 2 =>
    \A i \in 1..(Len(acquired) - 1) : acquired[i].proxy # acquired[i + 1].proxy

(* ---------------- C40 ---------------- *)
\* C40 (pool construction): for every state of proxies.txt (missing, with a valid
\* line, or present without any valid line) the constructor returns with a
\* non-empty proxy list, and it reads a file without a valid line once only before
\* it takes the built-in list.
C40_ConstructionEnds ==
  loadState # "new" =>
    /\ loadState = "returned"
    /\ Len(proxies) > 0
    /\ fileReads <= 1

====
